---- MODULE Spec2Model ----
(***************************************************************************)
(* The image-classification script imwithroc.py as a state machine.        *)
(* The script is one straight line of statements; pc names the statement   *)
(* that runs next.  The image corpus, the outcome of each feature          *)
(* extraction, the shuffle drawn by train_test_split and the decision      *)
(* functions learned by the classifiers are the nondeterministic inputs.   *)
(* Class indices are 0-based as in the script; sequence positions are      *)
(* 1-based as in TLA+.  A feature vector is modelled by one integer        *)
(* coordinate.                                                             *)
(***************************************************************************)
EXTENDS Integers, Sequences, FiniteSets

VARIABLES pc, error,
          images, labels, pos, features, valid_labels, kept, skipped,
          df, le, X, y, X_train, X_test, y_train, y_test, scaler,
          classifiers, svm, ensemble_model, fit_log,
          y_pred, accuracy, conf_matrix, y_prob, y_test_bin, n_classes, roc

buildVars == <<images, labels, pos, features, valid_labels, kept, skipped>>
dataVars  == <<df, le, X, y, X_train, X_test, y_train, y_test, scaler>>
modelVars == <<classifiers, svm, ensemble_model, fit_log>>
evalVars  == <<y_pred, accuracy, conf_matrix, y_prob, y_test_bin, n_classes, roc>>
vars      == <<pc, error, buildVars, dataVars, modelVars, evalVars>>

(* Bounds of the model. *)
MaxImages == 4

(* Probabilities are integers in units of 1/ProbUnit. *)
ProbUnit == 3 * 60

(* Sub-folder names of the corpus, in lexicographic order. *)
SortedNames == <<"acne", "eczema", "psoriasis">>
LabelNames  == {SortedNames[k] : k \in 1..Len(SortedNames)}

None == "None"

(* ---------------------------------------------------------------- helpers *)

Range(s) == {s[k] : k \in 1..Len(s)}

RECURSIVE SumSeq(_)
SumSeq(s) == IF s = <<>> THEN 0 ELSE s[1] + SumSeq(Tail(s))

RECURSIVE SortInts(_)
(* The integers of S as an increasing sequence (np.unique's order). *)
SortInts(S) ==
  IF S = {} THEN <<>>
  ELSE LET m == CHOOSE a \in S : \A b \in S : a <= b
       IN  <<m>> \o SortInts(S \ {m})

(* Strings compare lexicographically: a name's rank is its place in SortedNames. *)
NameRank(name) == CHOOSE k \in 1..Len(SortedNames) : SortedNames[k] = name

SortNames(S) ==
  LET ranks == SortInts({NameRank(a) : a \in S})
  IN  [k \in 1..Len(ranks) |-> SortedNames[ranks[k]]]

IndexOf(s, v) == CHOOSE k \in 1..Len(s) : s[k] = v

(* The statements of the script in program order; pc is the statement that *)
(* runs next, "done" after the last one.                                    *)
PcOrder == <<"extract", "encode", "split", "scale_fit", "scale_test", "classifiers",
             "grid_search", "ensemble", "ensemble_fit", "predict", "confusion",
             "predict_proba", "binarize", "roc", "done">>

(* The script is about to run statement l. *)
At(l) == pc = l /\ error = None

(* The place of a statement in the program order. *)
StageNo == [l \in Range(PcOrder) |-> IndexOf(PcOrder, l)]

(* Statement l has run to its end. *)
After(l) == StageNo[pc] > StageNo[l]

(* An uncaught exception ends the script at the statement that raised it. *)
Abort(exc) == error' = exc /\ pc' = pc

(* ------------------------------------------------------ feature extraction *)

(* extract_deep_features: the frozen network maps an image to its vector,   *)
(* the same vector every time; here a fixed function of the file.           *)
extract_deep_features(img_path) == (3 * img_path) % 5

(* os.walk lists the files of one sub-folder together, and the label of a   *)
(* file is the name of its sub-folder: equal labels are adjacent.           *)
Grouped(l) ==
  \A a, b, c \in 1..Len(l) : (a < b /\ b < c /\ l[a] = l[c]) => l[b] = l[a]

(* The state after the walk of main_folder: the image paths and their       *)
(* labels, two lists of one length.                                         *)
Init ==
  /\ pc = "extract" /\ error = None
  /\ \E n \in 0..MaxImages :
       /\ images = [k \in 1..n |-> k]
       /\ labels \in {l \in [1..n -> LabelNames] : Grouped(l)}
  /\ pos = 1
  /\ features = <<>> /\ valid_labels = <<>> /\ kept = <<>> /\ skipped = {}
  /\ df = None /\ le = None /\ X = None /\ y = None
  /\ X_train = None /\ X_test = None /\ y_train = None /\ y_test = None
  /\ scaler = None
  /\ classifiers = None /\ svm = None /\ ensemble_model = None /\ fit_log = <<>>
  /\ y_pred = None /\ accuracy = None /\ conf_matrix = None /\ y_prob = None
  /\ y_test_bin = None /\ n_classes = None /\ roc = None

(* One iteration of the loop whose extraction succeeds: both lists grow.    *)
(* kept and skipped are history variables: the input positions of the       *)
(* retained items, in order, and of the items whose extraction raised.      *)
ExtractOk ==
  /\ At("extract") /\ pos <= Len(images)
  /\ features' = Append(features, extract_deep_features(images[pos]))
  /\ valid_labels' = Append(valid_labels, labels[pos])
  /\ kept' = Append(kept, pos)
  /\ pos' = pos + 1
  /\ UNCHANGED <<pc, error, images, labels, skipped, dataVars, modelVars, evalVars>>

(* ExtractFail with the label appended outside the try block. *)
ExtractFail_KeepsLabel ==
  /\ At("extract") /\ pos <= Len(images)
  /\ valid_labels' = Append(valid_labels, labels[pos])
  /\ pos' = pos + 1
  /\ skipped' = skipped \cup {pos}
  /\ UNCHANGED <<pc, error, images, labels, features, kept,
                 dataVars, modelVars, evalVars>>

(* One iteration whose extraction raises: the except clause prints and the  *)
(* loop goes on to the next pair.                                           *)
ExtractFail ==
  /\ At("extract") /\ pos <= Len(images)
  /\ pos' = pos + 1
  /\ skipped' = skipped \cup {pos}
  /\ UNCHANGED <<pc, error, images, labels, features, valid_labels, kept,
                 dataVars, modelVars, evalVars>>

(* The zip is exhausted; df = DataFrame(features) with the label column.    *)
MakeDataFrame ==
  /\ At("extract") /\ pos > Len(images)
  /\ df' = [k \in 1..Len(features) |-> [feat |-> features[k], label |-> valid_labels[k]]]
  /\ pc' = "encode"
  /\ UNCHANGED <<error, buildVars, le, X, y, X_train, X_test, y_train, y_test, scaler,
                 modelVars, evalVars>>

(* ------------------------------------------------------------ label encoder *)

(* le_fit without np.unique: one class per row. *)
le_fit_NoUnique(raw) == [classes_ |-> raw]

(* LabelEncoder.fit: classes_ is the sorted array of the distinct labels. *)
le_fit(raw) == [classes_ |-> SortNames(Range(raw))]

(* LabelEncoder.transform: the 0-based position of each label in classes_. *)
le_transform(enc, raw) == [k \in 1..Len(raw) |-> IndexOf(enc.classes_, raw[k]) - 1]

(* LabelEncoder.inverse_transform: classes_[index]. *)
le_inverse_transform(enc, idx) == [k \in 1..Len(idx) |-> enc.classes_[idx[k] + 1]]

EncodeLabels ==
  /\ At("encode")
  /\ LET raw == [k \in 1..Len(df) |-> df[k].label]
         enc == le_fit(raw)
         col == le_transform(enc, raw)
     IN  /\ le' = enc
         /\ df' = [k \in 1..Len(df) |-> [feat |-> df[k].feat, label |-> col[k]]]
  /\ pc' = "split"
  /\ UNCHANGED <<error, buildVars, X, y, X_train, X_test, y_train, y_test, scaler,
                 modelVars, evalVars>>

(* ------------------------------------------------------------------- split *)

(* test_size = 0.3: n_test = ceil(0.3 * n), n_train = n - n_test. *)
TestSizeNum == 3
TestSizeDen == 10
NTest(n)  == (TestSizeNum * n + TestSizeDen - 1) \div TestSizeDen
NTrain(n) == n - NTest(n)

(* Rows keep their DataFrame index (idx) through the split. *)
Take(frame, ind) == [k \in 1..Len(ind) |-> [idx |-> ind[k], val |-> frame[ind[k]]]]

(* ShuffleSplit: the first n_test entries of the permutation index the test *)
(* split, the next n_train entries the train split.                         *)
TestIndices(perm, n)  == [k \in 1..NTest(n) |-> perm[k]]
(* TrainIndices with the slice started one entry early. *)
TrainIndices_Overlap(perm, n) == [k \in 1..NTrain(n) |-> perm[NTest(n) + k - 1]]

TrainIndices(perm, n) == [k \in 1..NTrain(n) |-> perm[NTest(n) + k]]

(* random_state=42: rng.permutation(n) of numpy's RandomState(42), the      *)
(* 0-based row numbers in shuffled order, for n = 0, 1, 2, ...              *)
Permutation42 ==
  << <<>>,
     <<0>>,
     <<1, 0>>,
     <<0, 1, 2>>,
     <<1, 3, 0, 2>>,
     <<1, 4, 2, 0, 3>>,
     <<0, 1, 5, 2, 4, 3>>,
     <<0, 1, 5, 2, 4, 3, 6>>,
     <<1, 5, 0, 7, 2, 4, 3, 6>> >>

(* The shuffle as 1-based row positions. *)
permutation(n) == [k \in 1..n |-> Permutation42[n + 1][k] + 1]

Split ==
  /\ At("split")
  /\ LET n == Len(df) IN
     /\ NTrain(n) > 0
     /\ LET perm == permutation(n) IN
          LET Xf == [k \in 1..n |-> df[k].feat]
              yf == [k \in 1..n |-> df[k].label]
          IN  /\ X' = Xf /\ y' = yf
              /\ X_train' = Take(Xf, TrainIndices(perm, n))
              /\ X_test'  = Take(Xf, TestIndices(perm, n))
              /\ y_train' = Take(yf, TrainIndices(perm, n))
              /\ y_test'  = Take(yf, TestIndices(perm, n))
  /\ pc' = "scale_fit"
  /\ UNCHANGED <<error, buildVars, df, le, scaler, modelVars, evalVars>>

(* train_test_split raises when the train split would be empty. *)
SplitRaises ==
  /\ At("split")
  /\ NTrain(Len(df)) = 0
  /\ Abort("ValueError")
  /\ UNCHANGED <<buildVars, dataVars, modelVars, evalVars>>

(* ------------------------------------------------------------------ scaler *)

Vals(rows) == [k \in 1..Len(rows) |-> rows[k].val]

(* StandardScaler.fit: the mean is sum / n and the variance is              *)
(* (n * sumsq - sum^2) / n^2; both are kept as exact fractions.  fits       *)
(* counts the calls of fit.                                                 *)
scaler_fit(rows, fits) ==
  LET v == Vals(rows)
      n == Len(v)
      s == SumSeq(v)
      q == SumSeq([k \in 1..n |-> v[k] * v[k]])
  IN  [n_samples_seen_ |-> n, sum |-> s, var_num |-> n * q - s * s, fits |-> fits + 1]

(* StandardScaler.transform of one value x: (x - mean) / scale, where scale *)
(* is the standard deviation, or 1 when the variance is zero.  The result   *)
(* is the exact number num / sqrt(den2).                                    *)
scaler_transform_value(st, x) ==
  [num  |-> st.n_samples_seen_ * x - st.sum,
   den2 |-> IF st.var_num = 0 THEN st.n_samples_seen_ * st.n_samples_seen_
            ELSE st.var_num]

scaler_transform(st, rows) ==
  [k \in 1..Len(rows) |-> scaler_transform_value(st, rows[k].val)]

(* X_train = scaler.fit_transform(X_train) *)
ScalerFitTransform ==
  /\ At("scale_fit")
  /\ LET st == scaler_fit(X_train, 0)
     IN  /\ scaler' = st
         /\ X_train' = scaler_transform(st, X_train)
  /\ pc' = "scale_test"
  /\ UNCHANGED <<error, buildVars, df, le, X, y, X_test, y_train, y_test,
                 modelVars, evalVars>>

(* ScalerTransformTest with fit_transform in place of transform. *)
ScalerTransformTest_Refits ==
  /\ At("scale_test")
  /\ LET st == scaler_fit(X_test, scaler.fits)
     IN  /\ scaler' = st
         /\ X_test' = scaler_transform(st, X_test)
  /\ pc' = "classifiers"
  /\ UNCHANGED <<error, buildVars, df, le, X, y, X_train, y_train, y_test,
                 modelVars, evalVars>>

(* X_test = scaler.transform(X_test) *)
ScalerTransformTest ==
  /\ At("scale_test")
  /\ X_test' = scaler_transform(scaler, X_test)
  /\ pc' = "classifiers"
  /\ UNCHANGED <<error, buildVars, df, le, X, y, X_train, y_train, y_test, scaler,
                 modelVars, evalVars>>

(* ------------------------------------------------------------- classifiers *)

NoParams == [C |-> None, kernel |-> None]

(* An estimator object: its class, its hyperparameters and, once fit has    *)
(* run, the classes it saw, the decision function it learned (w) and the    *)
(* call that trained it.                                                    *)
Estimator(name, params) ==
  [name |-> name, params |-> params, fitted |-> FALSE, classes_ |-> <<>>,
   w |-> 0, fitted_by |-> None]

(* sklearn.base.clone: a new unfitted estimator with the same parameters. *)
clone(est) == Estimator(est.name, est.params)

(* The decision functions a fit can learn, per estimator class.  On the one *)
(* feature coordinate a function is a direction (1 or -1), or 0 for the     *)
(* function that cannot tell the classes apart.                             *)
Learnable(name) == IF name = "SVC" THEN {0, 1} ELSE {-1, 1}

(* est.fit(X, y): the estimator is trained in place. *)
est_fit(est, yvals, w, by) ==
  [est EXCEPT !.fitted = TRUE, !.classes_ = SortInts(Range(yvals)),
              !.w = w, !.fitted_by = by]

Sign(a) == IF a < 0 THEN -1 ELSE IF a = 0 THEN 0 ELSE 1

(* est.predict_proba for one scaled row z: a distribution over classes_, in *)
(* units of 1/ProbUnit.  A direction puts the whole mass on the first, the  *)
(* middle or the last class by the side of the mean z lies on.              *)
est_predict_proba(est, z) ==
  LET kt == Len(est.classes_)
      s  == Sign(z.num) * est.w
      c  == IF s < 0 THEN 1 ELSE IF s = 0 THEN (kt + 1) \div 2 ELSE kt
  IN  IF est.w = 0 THEN [j \in 1..kt |-> ProbUnit \div kt]
      ELSE [j \in 1..kt |-> IF j = c THEN ProbUnit ELSE 0]

(* classifiers = {'LDA': ..., 'SVM': ..., 'Naive Bayes': ...} *)
DefineClassifiers ==
  /\ At("classifiers")
  /\ classifiers' = [LDA |-> Estimator("LinearDiscriminantAnalysis", NoParams),
                     SVM |-> Estimator("SVC", [C |-> "1", kernel |-> "linear"]),
                     NB  |-> Estimator("GaussianNB", NoParams)]
  /\ pc' = "grid_search"
  /\ UNCHANGED <<error, buildVars, dataVars, svm, ensemble_model, fit_log, evalVars>>

(* ------------------------------------------------------------- grid search *)

cv == 5
ParamGrid == [C : {"0.1", "1", "10", "100"}, kernel : {"linear", "rbf"}]

(* svm = GridSearchCV(SVC(probability=True), param_grid, refit=True, cv=5)  *)
(* svm.fit(X_train, y_train): every combination is fit on every fold, then  *)
(* the best one is fit once more on the whole train split (refit=True).     *)
(* Which combination wins depends on the data and is left open.  The        *)
(* decision function of the refit is never applied, best_estimator_ never   *)
(* predicts, and one function stands for it.  An SVC cannot be fit on one   *)
(* class.                                                                   *)
GridSearch ==
  /\ At("grid_search")
  /\ Cardinality(Range(Vals(y_train))) >= 2
  /\ \E best \in ParamGrid :
       /\ svm' = [best_params_ |-> best,
                  best_estimator_ |-> est_fit(Estimator("SVC", best), Vals(y_train),
                                              1, "GridSearchCV.fit"),
                  cv_fits |-> Cardinality(ParamGrid) * cv]
       /\ fit_log' = Append(fit_log, [est |-> "SVC", params |-> best,
                                      by |-> "GridSearchCV.fit"])
  /\ pc' = "ensemble"
  /\ UNCHANGED <<error, buildVars, dataVars, classifiers, ensemble_model, evalVars>>

(* svm.fit raises when the search cannot run on the train split: one class  *)
(* only, or too few samples for the folds.  The second condition depends on *)
(* the size of the corpus and is left open.                                 *)
GridSearchRaises ==
  /\ At("grid_search")
  /\ Abort("ValueError")
  /\ UNCHANGED <<buildVars, dataVars, modelVars, evalVars>>

(* ---------------------------------------------------------------- ensemble *)

(* BuildEnsemble with the untuned classifiers['SVM'] as second estimator. *)
BuildEnsemble_UntunedSVM ==
  /\ At("ensemble")
  /\ ensemble_model' = [estimators |-> <<classifiers.LDA, classifiers.SVM,
                                         classifiers.NB>>,
                        voting |-> "soft", fitted |-> FALSE,
                        estimators_ |-> <<>>, classes_ |-> <<>>]
  /\ pc' = "ensemble_fit"
  /\ UNCHANGED <<error, buildVars, dataVars, classifiers, svm, fit_log, evalVars>>

(* ensemble_model = VotingClassifier(estimators=[lda, svm.best_estimator_,  *)
(* nb], voting='soft'): the constructor stores the estimators it is given.  *)
BuildEnsemble ==
  /\ At("ensemble")
  /\ ensemble_model' = [estimators |-> <<classifiers.LDA, svm.best_estimator_,
                                         classifiers.NB>>,
                        voting |-> "soft", fitted |-> FALSE,
                        estimators_ |-> <<>>, classes_ |-> <<>>]
  /\ pc' = "ensemble_fit"
  /\ UNCHANGED <<error, buildVars, dataVars, classifiers, svm, fit_log, evalVars>>

(* voting_fit that takes an estimator that is already fit as it is. *)
voting_fit_KeepsFitted(ens, yvals, ws) ==
  [ens EXCEPT !.fitted = TRUE,
              !.classes_ = SortInts(Range(yvals)),
              !.estimators_ = [k \in 1..Len(ens.estimators) |->
                                 IF ens.estimators[k].fitted THEN ens.estimators[k]
                                 ELSE est_fit(clone(ens.estimators[k]), yvals, ws[k],
                                              "VotingClassifier.fit")]]

(* VotingClassifier.fit: classes_ are the sorted distinct train labels, and *)
(* estimators_ holds a clone of each given estimator, fit on the train      *)
(* split; the given estimators themselves are left as they were.            *)
voting_fit(ens, yvals, ws) ==
  [ens EXCEPT !.fitted = TRUE,
              !.classes_ = SortInts(Range(yvals)),
              !.estimators_ = [k \in 1..Len(ens.estimators) |->
                                 est_fit(clone(ens.estimators[k]), yvals, ws[k],
                                         "VotingClassifier.fit")]]

(* FitEnsemble with the call of fit left out. *)
FitEnsemble_Skipped ==
  /\ At("ensemble_fit")
  /\ pc' = "predict"
  /\ UNCHANGED <<error, buildVars, dataVars, modelVars, evalVars>>

FitEnsemble ==
  /\ At("ensemble_fit")
  /\ \E ws \in [1..3 -> {-1, 0, 1}] :
       /\ \A k \in 1..3 : ws[k] \in Learnable(ensemble_model.estimators[k].name)
       /\ ensemble_model' = voting_fit(ensemble_model, Vals(y_train), ws)
  /\ fit_log' = fit_log \o [k \in 1..3 |->
                   [est |-> ensemble_model.estimators[k].name,
                    params |-> ensemble_model.estimators[k].params,
                    by |-> "VotingClassifier.fit"]]
  /\ pc' = "predict"
  /\ UNCHANGED <<error, buildVars, dataVars, classifiers, svm, evalVars>>

(* ensemble_model.fit raises when the fit of a constituent raises (LDA      *)
(* needs more samples than classes, for one); the ensemble is then not fit. *)
(* The condition depends on the size of the corpus and is left open.        *)
FitEnsembleRaises ==
  /\ At("ensemble_fit")
  /\ Abort("ValueError")
  /\ UNCHANGED <<buildVars, dataVars, modelVars, evalVars>>

NotFittedError == "NotFittedError"

(* The outcome of a call: the exception it raised, or its value. *)
Raise(exc)    == [raised |-> exc, value |-> None]
Return(value) == [raised |-> None, value |-> value]

(* np.average over the estimators, axis 0, no weights.  Every probability   *)
(* of the model is a multiple of the number of estimators, so the division  *)
(* is exact.                                                                *)
Mean(vals) == SumSeq(vals) \div Len(vals)

SoftVote(probas) ==
  [j \in 1..Len(probas[1]) |-> Mean([e \in 1..Len(probas) |-> probas[e][j]])]

(* ArgMax that takes the last position of the maximum. *)
ArgMax_Last(row) ==
  (CHOOSE j \in 1..Len(row) :
      /\ \A k \in 1..Len(row) : row[k] <= row[j]
      /\ \A k \in (j + 1)..Len(row) : row[k] < row[j]) - 1

(* np.argmax: the first position of the maximum, 0-based. *)
ArgMax(row) ==
  (CHOOSE j \in 1..Len(row) :
      /\ \A k \in 1..Len(row) : row[k] <= row[j]
      /\ \A k \in 1..(j - 1) : row[k] < row[j]) - 1

(* VotingClassifier.predict_proba: check_is_fitted, then the average of the *)
(* estimators' predict_proba for every row.                                 *)
voting_predict_proba(ens, rows) ==
  IF ~ens.fitted THEN Raise(NotFittedError)
  ELSE Return([r \in 1..Len(rows) |->
                 SoftVote([e \in 1..Len(ens.estimators_) |->
                             est_predict_proba(ens.estimators_[e], rows[r])])])

(* VotingClassifier.predict: check_is_fitted, then for every row the class  *)
(* of classes_ at the argmax of the averaged probabilities.                 *)
voting_predict(ens, rows) ==
  IF ~ens.fitted THEN Raise(NotFittedError)
  ELSE LET avg == voting_predict_proba(ens, rows).value
       IN  Return([r \in 1..Len(rows) |-> ens.classes_[ArgMax(avg[r]) + 1]])

(* accuracy_score: the matching fraction, kept as correct / total. *)
accuracy_score(truth, pred) ==
  [correct |-> Cardinality({k \in 1..Len(truth) : truth[k] = pred[k]}),
   total   |-> Len(truth)]

(* y_pred = ensemble_model.predict(X_test), then the accuracy and the report *)
Predict ==
  /\ At("predict")
  /\ LET p == voting_predict(ensemble_model, X_test)
     IN  IF p.raised # None
         THEN /\ Abort(p.raised)
              /\ UNCHANGED evalVars
         ELSE /\ y_pred' = p.value
              /\ accuracy' = accuracy_score(Vals(y_test), p.value)
              /\ pc' = "confusion"
              /\ UNCHANGED <<error, conf_matrix, y_prob, y_test_bin, n_classes, roc>>
  /\ UNCHANGED <<buildVars, dataVars, modelVars>>

(* -------------------------------------------------------------- evaluation *)

(* confusion_matrix(y_true, y_pred) with no labels argument: the labels are *)
(* the sorted values that occur in y_true or y_pred, and entry (i, j)       *)
(* counts the samples of true label labels[i] predicted as labels[j].       *)
confusion_matrix(truth, pred) ==
  LET lab == SortInts(Range(truth) \cup Range(pred))
  IN  [i \in 1..Len(lab) |-> [j \in 1..Len(lab) |->
         Cardinality({k \in 1..Len(truth) : truth[k] = lab[i] /\ pred[k] = lab[j]})]]

(* conf_matrix = confusion_matrix(y_test, y_pred); the heatmap names row    *)
(* and column i with le.classes_[i].                                        *)
ConfusionMatrix ==
  /\ At("confusion")
  /\ conf_matrix' = confusion_matrix(Vals(y_test), y_pred)
  /\ pc' = "predict_proba"
  /\ UNCHANGED <<error, buildVars, dataVars, modelVars,
                 y_pred, accuracy, y_prob, y_test_bin, n_classes, roc>>

(* y_prob = ensemble_model.predict_proba(X_test) *)
PredictProba ==
  /\ At("predict_proba")
  /\ LET p == voting_predict_proba(ensemble_model, X_test)
     IN  IF p.raised # None
         THEN /\ Abort(p.raised)
              /\ UNCHANGED evalVars
         ELSE /\ y_prob' = p.value
              /\ pc' = "binarize"
              /\ UNCHANGED <<error, y_pred, accuracy, conf_matrix, y_test_bin,
                             n_classes, roc>>
  /\ UNCHANGED <<buildVars, dataVars, modelVars>>

(* label_binarize(y, classes=range(k)): one indicator column per class for  *)
(* three classes or more; for two classes a single column, the indicator of *)
(* the second class; for one class a single column of zeros.                *)
label_binarize(yvals, k) ==
  [r \in 1..Len(yvals) |->
     IF k >= 3 THEN [c \in 1..k |-> IF yvals[r] = c - 1 THEN 1 ELSE 0]
     ELSE IF k = 2 THEN <<IF yvals[r] = 1 THEN 1 ELSE 0>>
     ELSE <<0>>]

(* y_test_bin = label_binarize(...); n_classes = y_test_bin.shape[1] *)
Binarize ==
  /\ At("binarize")
  /\ LET b == label_binarize(Vals(y_test), Len(le.classes_))
     IN  /\ y_test_bin' = b
         /\ n_classes' = Len(b[1])
  /\ roc' = <<>>
  /\ pc' = "roc"
  /\ UNCHANGED <<error, buildVars, dataVars, modelVars,
                 y_pred, accuracy, conf_matrix, y_prob>>

Column(matrix, j) == [r \in 1..Len(matrix) |-> matrix[r][j]]

(* auc(roc_curve(truth, score)): the area under the ROC curve equals the    *)
(* share of (positive, negative) pairs the score orders rightly, a tie      *)
(* counting one half; without a positive or a negative it is nan.           *)
roc_auc_of(truth, score) ==
  LET P  == {k \in 1..Len(truth) : truth[k] = 1}
      N  == {k \in 1..Len(truth) : truth[k] = 0}
      gt == Cardinality({pr \in P \X N : score[pr[1]] > score[pr[2]]})
      eq == Cardinality({pr \in P \X N : score[pr[1]] = score[pr[2]]})
  IN  IF P = {} \/ N = {} THEN "nan"
      ELSE [num |-> 2 * gt + eq, den |-> 2 * Cardinality(P) * Cardinality(N)]

(* One iteration of the loop over range(n_classes), i = Len(roc):           *)
(* roc_curve(y_test_bin[:, i], y_prob[:, i]) and its auc.                   *)
RocIteration ==
  /\ At("roc")
  /\ Len(roc) < n_classes
  /\ Len(roc) < Len(y_prob[1])
  /\ LET i == Len(roc)
         truth == Column(y_test_bin, i + 1)
         score == Column(y_prob, i + 1)
     IN  roc' = Append(roc, [y_true |-> truth, y_score |-> score,
                             roc_auc |-> roc_auc_of(truth, score)])
  /\ UNCHANGED <<pc, error, buildVars, dataVars, modelVars,
                 y_pred, accuracy, conf_matrix, y_prob, y_test_bin, n_classes>>

(* y_prob[:, i] with i beyond the last column raises IndexError. *)
RocRaises ==
  /\ At("roc")
  /\ Len(roc) < n_classes
  /\ Len(roc) >= Len(y_prob[1])
  /\ Abort("IndexError")
  /\ UNCHANGED <<buildVars, dataVars, modelVars, evalVars>>

(* The loop is over; curve i is plotted with the legend le.classes_[i]. *)
PlotRoc ==
  /\ At("roc")
  /\ Len(roc) = n_classes
  /\ pc' = "done"
  /\ UNCHANGED <<error, buildVars, dataVars, modelVars, evalVars>>

Next ==
  \/ ExtractOk \/ ExtractFail \/ MakeDataFrame \/ EncodeLabels
  \/ Split \/ SplitRaises \/ ScalerFitTransform \/ ScalerTransformTest
  \/ DefineClassifiers \/ GridSearch \/ GridSearchRaises
  \/ BuildEnsemble \/ FitEnsemble \/ FitEnsembleRaises \/ Predict
  \/ ConfusionMatrix \/ PredictProba \/ Binarize
  \/ RocIteration \/ RocRaises \/ PlotRoc

Spec == Init /\ [][Next]_vars

(* ================================================================== claims *)

Idx(rows) == [k \in 1..Len(rows) |-> rows[k].idx]

NoDuplicates(s) == \A a, b \in 1..Len(s) : s[a] = s[b] => a = b

(* The number of distinct labels of the label mapping. *)
K == Len(le.classes_)

(* C4: the dataset builder drops exactly the items whose extraction failed  *)
(* and never aborts: the two lists have one length, at most that of the     *)
(* input; entry i of each comes from the same input item; the retained      *)
(* items are in input order; every item seen so far is retained or failed.  *)
C4_BuilderKeepsPairs ==
  /\ Len(features) = Len(valid_labels)
  /\ Len(features) = Len(kept)
  /\ Len(features) <= Len(images)
  /\ \A i \in 1..Len(kept) :
       /\ valid_labels[i] = labels[kept[i]]
       /\ features[i] = extract_deep_features(images[kept[i]])
  /\ \A i \in 1..(Len(kept) - 1) : kept[i] < kept[i + 1]
  /\ Range(kept) \cap skipped = {}
  /\ Range(kept) \cup skipped = 1..(pos - 1)
  /\ (pc = "extract" => error = None)
  /\ (After("extract") => /\ pos = Len(images) + 1
                          /\ Len(df) = Len(images) - Cardinality(skipped))

(* C4 witness: the loop is over, a failed item lies between retained ones. *)
C4_Witness ==
  /\ After("extract")
  /\ \E a, b, c \in 1..Len(images) :
       a < b /\ b < c /\ b \in skipped /\ a \in Range(kept) /\ c \in Range(kept)
          /\ labels[a] # labels[c]

(* C10: the fitted label mapping is a bijection between the distinct        *)
(* retained labels and 0 .. K-1; inverse_transform(transform(labels)) gives *)
(* the labels back; every row of the train and of the test split carries    *)
(* the index of its own label.                                              *)
C10_LabelMappingBijective ==
  After("encode") =>
    /\ NoDuplicates(le.classes_)
    /\ Range(le.classes_) = Range(valid_labels)
    /\ K = Cardinality(Range(valid_labels))
    /\ LET encoded == le_transform(le, valid_labels)
       IN  /\ Range(encoded) = 0..(K - 1)
           /\ \A a, b \in 1..Len(valid_labels) :
                (encoded[a] = encoded[b]) <=> (valid_labels[a] = valid_labels[b])
           /\ le_inverse_transform(le, encoded) = valid_labels
           /\ \A k \in 1..Len(df) : df[k].label = encoded[k]
    /\ (After("split") =>
          \A r \in Range(y_train) \cup Range(y_test) :
             /\ r.val \in 0..(K - 1)
             /\ le.classes_[r.val + 1] = valid_labels[r.idx])

(* C10 witness: three classes, the first label seen is not the first in     *)
(* sorted order, and the split has been made.                               *)
C10_Witness ==
  /\ After("split")
  /\ K = 3
  /\ valid_labels[1] # le.classes_[1]

(* C9: the train and the test split are disjoint as index sets and hold     *)
(* every row exactly once, and every feature row stays with its own label.  *)
C9_SplitPartitions ==
  After("split") =>
    /\ Len(y_train) + Len(y_test) = Len(df)
    /\ Len(X_train) = Len(y_train) /\ Len(X_test) = Len(y_test)
    /\ NoDuplicates(Idx(y_train) \o Idx(y_test))
    /\ Range(Idx(y_train)) \cap Range(Idx(y_test)) = {}
    /\ Range(Idx(y_train)) \cup Range(Idx(y_test)) = 1..Len(df)
    /\ \A k \in 1..Len(y_train) : y_train[k].val = df[y_train[k].idx].label
    /\ \A k \in 1..Len(y_test) : y_test[k].val = df[y_test[k].idx].label
    /\ \A k \in 1..Len(X_train) :
         X_train[k] = IF After("scale_fit")
                      THEN scaler_transform_value(scaler, df[y_train[k].idx].feat)
                      ELSE [idx |-> y_train[k].idx, val |-> df[y_train[k].idx].feat]
    /\ \A k \in 1..Len(X_test) :
         X_test[k] = IF After("scale_test")
                     THEN scaler_transform_value(scaler, df[y_test[k].idx].feat)
                     ELSE [idx |-> y_test[k].idx, val |-> df[y_test[k].idx].feat]

(* C9 witness: a split of four rows, two and two, that is not in row order. *)
C9_Witness ==
  /\ After("split")
  /\ Len(y_train) = 2 /\ Len(y_test) = 2
  /\ y_test[1].idx > y_train[1].idx
  /\ y_train[1].val # y_test[1].val

(* The scaler statistics of the rows of X with the given indices. *)
StatsOf(ind) == scaler_fit([k \in 1..Len(ind) |-> [idx |-> ind[k], val |-> X[ind[k]]]], 0)

C3_ScalerState ==
  After("scale_fit") =>
    /\ scaler = StatsOf(Idx(y_train))
    /\ scaler.fits = 1
    /\ (After("scale_test") =>
          \A k \in 1..Len(X_test) :
             X_test[k] = scaler_transform_value(StatsOf(Idx(y_train)), X[y_test[k].idx]))

(* C3: the scaler is fit once, from the rows of the train split only; the   *)
(* test split is transformed with that state; once fit, no step changes it. *)
C3_ScalerFitOnceOnTrain ==
  /\ [](C3_ScalerState)
  /\ [][After("scale_fit") => scaler' = scaler]_vars

(* C3 witness: the run is over, the features of the train split vary, and   *)
(* the statistics of the whole dataset would have been different ones.      *)
C3_Witness ==
  /\ pc = "done"
  /\ scaler.var_num > 0
  /\ scaler.sum * Len(X) # SumSeq(X) * scaler.n_samples_seen_

(* The SVC trainings on the whole train split that fit_log records. *)
SvcTrainings == {k \in 1..Len(fit_log) : fit_log[k].est = "SVC"}

(* The probabilities estimator e of the fitted ensemble gives row r of the  *)
(* scaled test split.                                                       *)
ConstituentProba(e, r) == est_predict_proba(ensemble_model.estimators_[e], X_test[r])

(* The sum over the three constituents, class by class, for row r. *)
ConstituentSum(r) ==
  LET p1 == ConstituentProba(1, r)
      p2 == ConstituentProba(2, r)
      p3 == ConstituentProba(3, r)
  IN  <<>> \o [c \in 1..Len(ensemble_model.classes_) |-> p1[c] + p2[c] + p3[c]]

(* Column j (1-based) holds the largest value of row, and no earlier column does. *)
FirstMaximum(row, j) ==
  /\ \A k \in 1..Len(row) : row[k] <= row[j]
  /\ \A k \in 1..(j - 1) : row[k] < row[j]

(* C1: predict_proba is, for every sample and class, the arithmetic mean of *)
(* the three constituents' probabilities, and predict is the class at the   *)
(* first maximum of that mean; the constituent outputs [0.9, 0.05, 0.05],   *)
(* [0.1, 0.8, 0.1] and [0, 0, 1] average to [0.333, 0.283, 0.383], class 2. *)
C1_SoftVoteMeanAndArgmax ==
  /\ After("predict") =>
       \A r \in 1..Len(X_test) :
          LET sums == ConstituentSum(r)
          IN  /\ \E j \in 1..Len(ensemble_model.classes_) :
                   /\ y_pred[r] = ensemble_model.classes_[j]
                   /\ FirstMaximum(sums, j)
              /\ After("predict_proba") =>
                   /\ Len(y_prob[r]) = Len(ensemble_model.classes_)
                   /\ \A c \in 1..Len(y_prob[r]) : 3 * y_prob[r][c] = sums[c]
                   /\ FirstMaximum(y_prob[r],
                                   IndexOf(ensemble_model.classes_, y_pred[r]))
  /\ LET example == << <<162, 9, 9>>, <<18, 144, 18>>, <<0, 0, 180>> >>
     IN  /\ SoftVote(example) = <<60, 51, 69>>
         /\ ArgMax(SoftVote(example)) = 2

(* C1 witness: the three constituents disagree on a test sample, two        *)
(* classes tie for the largest mean, and the lower class is predicted.      *)
C1_Witness ==
  /\ After("predict_proba")
  /\ \E r \in 1..Len(X_test) :
       /\ ConstituentProba(1, r) # ConstituentProba(2, r)
       /\ ConstituentProba(2, r) # ConstituentProba(3, r)
       /\ \E a, b \in 1..Len(y_prob[r]) :
            /\ a < b /\ y_prob[r][a] = y_prob[r][b]
            /\ FirstMaximum(y_prob[r], a)
            /\ y_pred[r] = ensemble_model.classes_[a]

(* C2 as stated: training the ensemble does not train the tuned classifier  *)
(* again; the ensemble uses the classifier the search trained, and the      *)
(* number of its trainings stays what it was before the ensemble's fit.     *)
C2_TunedReusedNotRetrained ==
  After("ensemble_fit") =>
    /\ ensemble_model.estimators_[2] = svm.best_estimator_
    /\ Cardinality(SvcTrainings) = 1

(* C2 as amended: the ensemble's fit trains a fresh clone of the tuned      *)
(* classifier, with the winning hyperparameters, on the same train split;   *)
(* the tuned configuration is thus trained once more, and the classifier    *)
(* the search trained is left as it was.                                    *)
C2_TunedCloneRetrained ==
  /\ After("grid_search") =>
       /\ svm.best_estimator_.fitted
       /\ svm.best_estimator_.fitted_by = "GridSearchCV.fit"
       /\ svm.best_estimator_.params = svm.best_params_
       /\ svm.best_params_ \in ParamGrid
  /\ (After("grid_search") /\ ~After("ensemble_fit")) => Cardinality(SvcTrainings) = 1
  /\ After("ensemble") => ensemble_model.estimators[2] = svm.best_estimator_
  /\ After("ensemble_fit") =>
       /\ ensemble_model.estimators_[2].name = "SVC"
       /\ ensemble_model.estimators_[2].params = svm.best_params_
       /\ ensemble_model.estimators_[2].fitted
       /\ ensemble_model.estimators_[2].fitted_by = "VotingClassifier.fit"
       /\ ensemble_model.estimators_[2].classes_ = svm.best_estimator_.classes_
       /\ Cardinality(SvcTrainings) = 2
       /\ \A k \in SvcTrainings : fit_log[k].params = svm.best_params_

(* C2 witness: the ensemble is fit, and its SVC has learned another         *)
(* decision function than the one the search had trained.                   *)
C2_Witness ==
  /\ After("ensemble_fit")
  /\ ensemble_model.estimators_[2].w # svm.best_estimator_.w

(* C5: predict and predict_proba of an ensemble that is not fit raise       *)
(* NotFittedError and return nothing; the script fits the ensemble before   *)
(* it calls either, so that neither call ever raises.                       *)
C5_NoPredictBeforeFit ==
  /\ (After("ensemble") /\ ~ensemble_model.fitted) =>
       /\ voting_predict(ensemble_model, X_test) = Raise(NotFittedError)
       /\ voting_predict_proba(ensemble_model, X_test) = Raise(NotFittedError)
  /\ After("ensemble_fit") => ensemble_model.fitted
  /\ pc \in {"predict", "predict_proba"} =>
       /\ voting_predict(ensemble_model, X_test).raised = None
       /\ voting_predict_proba(ensemble_model, X_test).raised = None
  /\ error # NotFittedError

(* C5 witness: the ensemble exists and is not fit yet. *)
C5_Witness ==
  /\ At("ensemble_fit")
  /\ ~ensemble_model.fitted
  /\ Len(X_test) = 2

(* C6 as stated: when the ensemble is constructed, each of its three        *)
(* constituents has been trained.                                           *)
C6_ConstituentsTrainedAtConstruction ==
  After("ensemble") => \A k \in 1..3 : ensemble_model.estimators[k].fitted

(* C6 as amended: when the ensemble is constructed only the tuned SVC has   *)
(* been trained, by the search on the scaled train split; LDA and Naive     *)
(* Bayes are untrained then, and the ensemble's fit, which runs after the   *)
(* scaling and before the first prediction, trains all three constituents   *)
(* on the train split.                                                      *)
C6_ConstituentsTrainedBeforePredict ==
  /\ After("ensemble") =>
       /\ [k \in 1..3 |-> ensemble_model.estimators[k].name]
            = <<"LinearDiscriminantAnalysis", "SVC", "GaussianNB">>
       /\ ~ensemble_model.estimators[1].fitted
       /\ ensemble_model.estimators[2].fitted
       /\ ensemble_model.estimators[2].fitted_by = "GridSearchCV.fit"
       /\ ~ensemble_model.estimators[3].fitted
  /\ pc = "ensemble_fit" => (~ensemble_model.fitted /\ ensemble_model.estimators_ = <<>>)
  /\ fit_log # <<>> => After("scale_test")
  /\ After("ensemble_fit") =>
       /\ Len(ensemble_model.estimators_) = 3
       /\ \A k \in 1..3 :
            /\ ensemble_model.estimators_[k].name = ensemble_model.estimators[k].name
            /\ ensemble_model.estimators_[k].fitted
            /\ ensemble_model.estimators_[k].fitted_by = "VotingClassifier.fit"
            /\ ensemble_model.estimators_[k].classes_ = SortInts(Range(Vals(y_train)))

(* C6 witness: the ensemble has just been constructed. *)
C6_Witness ==
  /\ At("ensemble_fit")
  /\ ~ensemble_model.estimators[1].fitted
  /\ ensemble_model.estimators[2].fitted

(* C7: the confusion matrix is K x K, K the number of distinct labels of    *)
(* the label mapping, and its entry (i, j) counts the test samples of true  *)
(* class i predicted as class j, also when a class occurs neither in the    *)
(* test labels nor in the predictions.                                      *)
C7_ConfusionMatrixIsKxK ==
  After("confusion") =>
    /\ Len(conf_matrix) = K
    /\ \A i \in 1..Len(conf_matrix) :
         /\ Len(conf_matrix[i]) = K
         /\ \A j \in 1..Len(conf_matrix[i]) :
              conf_matrix[i][j] =
                Cardinality({r \in 1..Len(y_test) :
                               y_test[r].val = i - 1 /\ y_pred[r] = j - 1})

(* C8: the ROC loop gives one result for each of the K classes, and the     *)
(* result for class c pairs the indicator of class c over the true test     *)
(* labels with the ensemble's probability of class c; for every K >= 2.     *)
C8_RocPerClass ==
  (pc = "done" /\ K >= 2) =>
    /\ Len(roc) = K
    /\ \A c \in 0..(K - 1) :
         /\ c + 1 <= Len(roc)
         /\ c \in Range(ensemble_model.classes_)
         /\ roc[c + 1].y_true = [r \in 1..Len(y_test) |->
                                   IF y_test[r].val = c THEN 1 ELSE 0]
         /\ roc[c + 1].y_score = Column(y_prob, IndexOf(ensemble_model.classes_, c))

====
